---- MODULE Spec2Model ----
(***************************************************************************)
(* Identity isolation and provisioning pipeline of                         *)
(* src/account-manager/main.py: AccountIsolationManager (proxy assignment, *)
(* profile store, browser build) and TikTokAccountManager (the provision   *)
(* operation create_tiktok_account and the registration flow               *)
(* _register_tiktok_account).                                              *)
(*                                                                         *)
(* One provisioning call is one process `a`.  The coroutine is cut at its  *)
(* awaits and at each blocking WebDriverWait; what the external            *)
(* collaborators answer (MongoDB, the Chrome driver, the page) is drawn    *)
(* nondeterministically in each action.  An exception is propagated        *)
(* through the enclosing handlers inside the action that raises it, since  *)
(* no await lies on that path.                                             *)
(***************************************************************************)
EXTENDS Integers, Sequences, FiniteSets, TLC

\* ------------------------------------------------------------- bounds
NumAttempts == 1        \* create_tiktok_account calls running side by side in Spec
NumStoreCalls == 2      \* create_tiktok_account calls made one after another in SpecStore

\* ------------------------------------------------- program constants
\* len(proxy_list) in _assign_proxy
PROXY_POOL_SIZE == 2
\* range(12) in _generate_secure_password
PASSWORD_LENGTH == 12

Attempts == 1..NumAttempts
PoolAttempts == 1..(PROXY_POOL_SIZE + 1)
StoreAttempts == 1..NumStoreCalls
\* A caller of the public get_browser_instance other than create_tiktok_account.
Client == NumAttempts + NumStoreCalls + PROXY_POOL_SIZE + 2
Procs == Attempts \cup PoolAttempts \cup StoreAttempts \cup {Client}
\* account_id is "tiktok_<user_id>_<randint(10000, 99999)>" for one user_id.
\* Only equality of two ids is ever observed, so the draws are named 1, 2, ...
\* in the order they first occur; there are as many names as calls.
Suffixes == 1..Cardinality(Procs)
proxy_list == 1..PROXY_POOL_SIZE
None == 0

\* Exceptions.  A condition is the exception object that str(e) renders.
Cond(kind, step) == [kind |-> kind, step |-> step]
NoCond == Cond("none", "none")
CancelledError == Cond("CancelledError", "none")
SnapshotError == Cond("SnapshotError", "none")
NoResult == [status |-> "none", message |-> NoCond, account_id |-> None]
\* A document's missing tiktok_profile key.
NoTiktokProfile == [status |-> "none", password |-> "none"]
NoDoc == [oid |-> None, account_id |-> None, proxy_config |-> None,
          status |-> "none", tiktok_profile |-> NoTiktokProfile]

\* _generate_secure_password before it is called.  Of the characters drawn,
\* the one at index `at` is kept (any index may be the one), with their count.
NoPassword == [status |-> "idle", n |-> 0, at |-> 0, ch |-> ""]
\* generate_video_from_material before it is called.
NoVideo == [pc |-> "idle", language |-> "", type |-> "", random_bound |-> FALSE,
            script |-> "none", primary |-> "untried", alternate |-> "untried",
            audio |-> "none", result |-> "none"]

VARIABLES
    pc,              \* where each create_tiktok_account call stands
    account_id,      \* local account_id (the random suffix; one user_id)
    proxy_config,    \* local proxy_config returned by _assign_proxy
    driver,          \* the Chrome process of the call: none, alive, quit
    reg,             \* _register_tiktok_account: none, running, returned, raised
    password,        \* local password of the flow: unset, None, typed
    result,          \* what create_tiktok_account returned, or raised
    profiles,        \* MongoDB collection db.profiles (insertion order)
    tiktok_accounts, \* MongoDB collection db.tiktok_accounts (a set of documents)
    \* History, kept for the one call that is watched (every call runs the same
    \* code; which one is watched is chosen freely at the start):
    watched,
    trace,           \* registration steps attempted so far, in order
    done,            \* the Tracked steps whose action was carried out
    captcha,         \* _handle_captcha found the CAPTCHA element
    snapshots,       \* calls of driver.save_screenshot
    \* History kept for every call:
    noCapacity,      \* every proxy was in use when the call was given one
    overrides,       \* how far _apply_anti_detection got on the call's driver
    fingerprints,    \* what _generate_browser_fingerprint has returned
    secure_password, \* a call of _generate_secure_password
    video            \* a call of AIVideoGenerator.generate_video_from_material

vars == <<pc, account_id, proxy_config, driver, reg, password, result, profiles,
          tiktok_accounts, watched, trace, done, captcha, snapshots, noCapacity,
          overrides, fingerprints, secure_password, video>>

InitCalls ==
    /\ pc = [a \in Procs |-> "idle"]
    /\ account_id = [a \in Procs |-> None]
    /\ proxy_config = [a \in Procs |-> None]
    /\ driver = [a \in Procs |-> "none"]
    /\ reg = [a \in Procs |-> "none"]
    /\ password = [a \in Procs |-> "unset"]
    /\ trace = [a \in Procs |-> <<>>]
    /\ done = [a \in Procs |-> {}]
    /\ captcha = [a \in Procs |-> FALSE]
    /\ snapshots = [a \in Procs |-> 0]
    /\ result = [a \in Procs |-> NoResult]
    /\ profiles = <<>>
    /\ tiktok_accounts = {}
    /\ noCapacity = [a \in Procs |-> FALSE]
    /\ overrides = [a \in Procs |-> "none"]
    /\ fingerprints = {}
    /\ secure_password = NoPassword
    /\ video = NoVideo

Init == InitCalls /\ watched \in Attempts

\* ---------------------------------------------------------------- helpers
Running(a) == pc[a] \notin {"idle", "returned", "propagated"}
Terminated(a) == pc[a] \in {"returned", "propagated"}

\* A handler that names too narrow an exception class: store errors escape it.
IsException_narrow(e) == e.kind \notin {"CancelledError", "StoreError"}

\* `except Exception` (lines 277, 297, 322, 333, 347, 362, 374, 392, 403, 420,
\* 434): asyncio.CancelledError derives from BaseException and passes through.
IsException(e) == e.kind # "CancelledError"

\* A proxy is in use while a call that was given it is still running.
InUse(p) == \E b \in Procs : Running(b) /\ proxy_config[b] = p

\* The proxies _assign_proxy draws from: the whole list; the usage key of
\* line 135 is commented out, so a proxy in use stays a candidate.
assign_proxy_candidates == proxy_list

\* What random.randint (line 63) may return: a value some call drew before,
\* or a new one.
randint_values ==
    LET used == {account_id[b] : b \in Procs} \ {None}
    IN  used \cup {Cardinality(used) + 1}

\* profiles.find_one({'account_id': id}): the first matching document.
find_one(id) ==
    IF \E i \in 1..Len(profiles) : profiles[i].account_id = id
    THEN profiles[CHOOSE i \in 1..Len(profiles) :
                     /\ profiles[i].account_id = id
                     /\ \A j \in 1..(i - 1) : profiles[j].account_id # id]
    ELSE NoDoc

\* The documents of a collection that match the filter {'account_id': id}.
matching(coll, id) == {d \in coll : d.account_id = id}

\* A write-back that inserts without looking for the account's document.
update_one_inserts(coll, a, id, tiktok_profile) ==
    {coll \cup {[oid |-> a, account_id |-> id, status |-> "registered",
                 password |-> tiktok_profile.password]}}

\* tiktok_accounts.update_one({'account_id': id}, {'$set': {'tiktok_profile':
\* ..., 'status': 'registered'}}, upsert=True) by call a (lines 512-516): the
\* collections it may leave.  One matching document is updated in place; when
\* none matches, a document is inserted (its _id is named after the call).
\* The server applies the operation atomically.
update_one(coll, a, id, tiktok_profile) ==
    IF matching(coll, id) = {}
    THEN {coll \cup {[oid |-> a, account_id |-> id, status |-> "registered",
                      password |-> tiktok_profile.password]}}
    ELSE {(coll \ {d}) \cup {[d EXCEPT !.status = "registered",
                                        !.password = tiktok_profile.password]} :
            d \in matching(coll, id)}

\* `if not profile` of line 151 left out.
not_profile_never(d) == FALSE

\* Line 151: `if not profile`, true of the None that find_one returns.
not_profile(d) == d = NoDoc

\* History is written for the watched call only.
Keep(a, f, v) == IF a = watched THEN [f EXCEPT ![a] = v] ELSE f

Goto(a, l) == pc' = [pc EXCEPT ![a] = l]

\* A handler that swallows the exception and goes on to the write-back.
create_tiktok_account_except_goes_on(a, e) ==
    /\ Goto(a, "save_tiktok_profile")
    /\ UNCHANGED result

\* create_tiktok_account, lines 277-279: an Exception becomes the returned
\* error dict; anything else leaves the coroutine.
create_tiktok_account_except(a, e) ==
    IF IsException(e)
    THEN /\ Goto(a, "returned")
         /\ result' = [result EXCEPT ![a] =
                [status |-> "error", message |-> e, account_id |-> None]]
    ELSE /\ Goto(a, "propagated")
         /\ result' = [result EXCEPT ![a] =
                [status |-> "raised", message |-> e, account_id |-> None]]

\* The handler without its screenshot.
register_except_no_screenshot(a, e, snap) ==
    /\ reg' = [reg EXCEPT ![a] = "raised"]
    /\ UNCHANGED snapshots
    /\ create_tiktok_account_except(a, e)

\* _register_tiktok_account, lines 434-437: screenshot, then re-raise.  When
\* save_screenshot itself raises (snap = FALSE), that exception replaces e.
register_except(a, e, snap) ==
    /\ reg' = [reg EXCEPT ![a] = "raised"]
    /\ IF IsException(e)
       THEN /\ snapshots' = Keep(a, snapshots, snapshots[a] + 1)
            /\ create_tiktok_account_except(a, IF snap THEN e ELSE SnapshotError)
       ELSE /\ UNCHANGED snapshots
            /\ create_tiktok_account_except(a, e)

\* ------------------------------------------- _generate_browser_fingerprint
\* The lists random.choice draws from (lines 96-103) and the range of
\* random.randint(-12, 12) (line 100).  pixel_ratio is written as in the source.
screen_resolutions == {"1920x1080", "1366x768", "1440x900", "1536x864"}
viewport_sizes == {"1200x800", "1366x768", "1440x900"}
color_depths == {24, 32}
pixel_ratios == {"1", "1.25", "1.5", "2"}
timezone_offsets == (0 - 12)..12
\* list(self.supported_languages.keys()), lines 45-59
supported_languages ==
    {"en", "zh", "ja", "ko", "es", "fr", "de", "it", "pt", "ru", "ar", "hi", "th"}
platforms == {"Win32", "MacIntel", "Linux x86_64"}
webgl_vendors == {"NVIDIA Corporation", "AMD", "Intel Inc."}

\* A generator that also offers 16-bit colour.
generate_browser_fingerprint_16bit ==
    [screen_resolution : screen_resolutions, viewport_size : viewport_sizes,
     color_depth : color_depths \cup {16}, pixel_ratio : pixel_ratios,
     timezone_offset : timezone_offsets, language : supported_languages,
     platform : platforms, webgl_vendor : webgl_vendors]

\* Lines 92-105: what one call may return; each field is a draw of its own.
\* user_agent (fake_useragent) and canvas_fingerprint (an md5 digest) are
\* free strings and are left out.
generate_browser_fingerprint ==
    [screen_resolution : screen_resolutions, viewport_size : viewport_sizes,
     color_depth : color_depths, pixel_ratio : pixel_ratios,
     timezone_offset : timezone_offsets, language : supported_languages,
     platform : platforms, webgl_vendor : webgl_vendors]

\* One call of _generate_browser_fingerprint (line 66).
fingerprint_call ==
    /\ fingerprints = {}
    /\ \E f \in generate_browser_fingerprint : fingerprints' = {f}
    /\ UNCHANGED <<pc, account_id, proxy_config, driver, reg, password, result, profiles,
                   tiktok_accounts, watched, trace, done, captcha, snapshots, noCapacity,
                   overrides, secure_password, video>>

\* ------------------------------------------------ _generate_secure_password
\* Everything but secure_password.
other_than_secure_password ==
    <<pc, account_id, proxy_config, driver, reg, password, result, profiles,
      tiktok_accounts, watched, trace, done, captcha, snapshots, noCapacity,
      overrides, fingerprints, video>>

\* Line 452: the string chars, character by character.
chars ==
    <<"a", "b", "c", "d", "e", "f", "g", "h", "i", "j", "k", "l", "m",
      "n", "o", "p", "q", "r", "s", "t", "u", "v", "w", "x", "y", "z",
      "A", "B", "C", "D", "E", "F", "G", "H", "I", "J", "K", "L", "M",
      "N", "O", "P", "Q", "R", "S", "T", "U", "V", "W", "X", "Y", "Z",
      "0", "1", "2", "3", "4", "5", "6", "7", "8", "9",
      "!", "@", "#", "$", "%", "^", "&", "*", "(", ")">>

\* A draw that may also give a blank.
random_choice_or_blank(seq) == {seq[i] : i \in 1..Len(seq)} \cup {" "}

\* random.choice(seq), line 453: any element of a non-empty sequence.
random_choice(seq) == {seq[i] : i \in 1..Len(seq)}

\* _generate_secure_password is called (line 359).
generate_secure_password_call ==
    /\ secure_password.status = "idle"
    /\ \E i \in 1..PASSWORD_LENGTH :
          secure_password' = [NoPassword EXCEPT !.status = "drawing", !.at = i]
    /\ UNCHANGED other_than_secure_password

\* One round of the generator expression of line 453; random.choice raises
\* IndexError on an empty sequence.
generate_secure_password_draw ==
    /\ secure_password.status = "drawing"
    /\ secure_password.n < PASSWORD_LENGTH
    /\ IF Len(chars) = 0
       THEN secure_password' = [secure_password EXCEPT !.status = "error"]
       ELSE \E c \in random_choice(chars) :
              secure_password' =
                  [secure_password EXCEPT
                      !.n = @ + 1,
                      !.ch = IF secure_password.n + 1 = secure_password.at
                             THEN c ELSE @]
    /\ UNCHANGED other_than_secure_password

\* The generator is exhausted: "".join returns the string.
generate_secure_password_return ==
    /\ secure_password.status = "drawing"
    /\ secure_password.n = PASSWORD_LENGTH
    /\ secure_password' = [secure_password EXCEPT !.status = "returned"]
    /\ UNCHANGED other_than_secure_password

\* --------------------------------------------- generate_video_from_material
\* Everything but video.
other_than_video ==
    <<pc, account_id, proxy_config, driver, reg, password, result, profiles,
      tiktok_accounts, watched, trace, done, captcha, snapshots, noCapacity,
      overrides, fingerprints, secure_password>>

\* The keys of self.language_configs (video_generator.py, lines 30-44).
language_configs ==
    {"en", "zh", "ja", "ko", "es", "fr", "de", "it", "pt", "ru", "ar", "hi", "th"}

\* config['language'] as callers may pass it: a configured language or not.
Languages == language_configs \cup {"xx"}

\* What _analyze_material tells apart by the file name's ending.
MaterialTypes == {"image", "video", "text"}

\* Whether the module global `random` is bound when line 153 runs: the file
\* has no `import random`, so only `from moviepy.editor import *` could bind it.
random_is_bound == BOOLEAN

\* The call, with _analyze_material (lines 54, 96-117), which cannot fail.
generate_video_from_material ==
    /\ video.pc = "idle"
    /\ \E l \in Languages, t \in MaterialTypes, b \in random_is_bound :
          video' = [NoVideo EXCEPT !.pc = "script", !.language = l, !.type = t,
                                   !.random_bound = b]
    /\ UNCHANGED other_than_video

\* _generate_script (lines 57, 120-149): the completion, the fixed script
\* after any Exception, or a cancellation at the await, which no
\* `except Exception` catches.
generate_script ==
    /\ video.pc = "script"
    /\ \E o \in {"generated", "fallback", "cancelled"} :
          video' = IF o = "cancelled"
                   THEN [video EXCEPT !.pc = "returned", !.result = "raised"]
                   ELSE [video EXCEPT !.pc = "audio_path", !.script = o]
    /\ UNCHANGED other_than_video

\* Line 153 of _generate_audio, before its try: a NameError when `random`
\* is unbound leaves _generate_audio and is caught at line 93.
generate_audio_path ==
    /\ video.pc = "audio_path"
    /\ video' = IF video.random_bound
                THEN [video EXCEPT !.pc = "azure"]
                ELSE [video EXCEPT !.pc = "returned", !.audio = "raised",
                                   !.result = "error"]
    /\ UNCHANGED other_than_video

\* The try of lines 154-172: the Azure voice lookup (KeyError for a language
\* that is not configured) and synthesis.
generate_audio_azure ==
    /\ video.pc = "azure"
    /\ \E o \in {"completed", "canceled", "raises"} :
          video' = IF video.language \in language_configs /\ o = "completed"
                   THEN [video EXCEPT !.pc = "visual", !.primary = "completed",
                                      !.audio = "path"]
                   ELSE [video EXCEPT !.pc = "elevenlabs", !.primary = "failed"]
    /\ UNCHANGED other_than_video

\* The handler of lines 174-191: the ElevenLabs voice lookup, generation and
\* the write of the file; any Exception is raised again as Exception and
\* caught at line 93.
generate_audio_elevenlabs ==
    /\ video.pc = "elevenlabs"
    /\ \E o \in {"ok", "raises"} :
          video' = IF video.language \in language_configs /\ o = "ok"
                   THEN [video EXCEPT !.pc = "visual", !.alternate = "ok",
                                      !.audio = "path"]
                   ELSE [video EXCEPT !.pc = "returned", !.alternate = "failed",
                                      !.audio = "raised", !.result = "error"]
    /\ UNCHANGED other_than_video

\* Lines 63-91: the visual, the merge, the subtitles, the optimisation and
\* the result dict, each awaited inside the try of line 52.
render_and_return ==
    /\ video.pc = "visual"
    /\ \E o \in {"ok", "raises", "cancelled"} :
          video' = [video EXCEPT !.pc = "returned",
                                 !.result = CASE o = "ok" -> "video"
                                              [] o = "raises" -> "error"
                                              [] OTHER -> "raised"]
    /\ UNCHANGED other_than_video

\* ------------------------------------------------- create_isolated_account
\* Lines 254, 63-83: the call starts, draws its account_id and is given a proxy.
create_isolated_account(a) ==
    /\ pc[a] = "idle"
    /\ UNCHANGED <<watched, password, driver, reg, trace, done, captcha, snapshots, profiles,
                   tiktok_accounts, overrides, fingerprints, secure_password, video>>
    /\ IF assign_proxy_candidates = {}
       THEN /\ create_tiktok_account_except(a, Cond("NoProxies", "none"))
            /\ UNCHANGED <<account_id, proxy_config, noCapacity>>
       ELSE \E sfx \in randint_values, proxy \in assign_proxy_candidates :
            /\ account_id' = [account_id EXCEPT ![a] = sfx]
            /\ proxy_config' = [proxy_config EXCEPT ![a] = proxy]
            /\ noCapacity' = [noCapacity EXCEPT ![a] =
                                 \A p \in proxy_list : InUse(p)]
            /\ Goto(a, "save_account_profile")
            /\ UNCHANGED result

\* The AccountProfile of lines 72-83, as a document of db.profiles; oid is
\* the _id MongoDB gives the document on insert (one insert per call).
AccountProfile(a) ==
    [oid |-> a, account_id |-> account_id[a], proxy_config |-> proxy_config[a],
     status |-> "active", tiktok_profile |-> NoTiktokProfile]

InsertOutcomes == {"ok", "raise", "written_raise", "cancelled"}

\* Line 86, _save_account_profile (139-142): insert_one, which may fail
\* before or after the document is written, or be cancelled at the await.
save_account_profile(a, O) ==
    /\ pc[a] = "save_account_profile"
    /\ UNCHANGED <<watched, password, account_id, proxy_config, driver, reg, trace, done, captcha,
                   snapshots, tiktok_accounts, noCapacity, overrides, fingerprints, secure_password, video>>
    /\ \E o \in InsertOutcomes \cap O :
        /\ profiles' = IF o \in {"ok", "written_raise"}
                       THEN Append(profiles, AccountProfile(a))
                       ELSE profiles
        /\ CASE o = "ok" -> Goto(a, "get_browser_instance") /\ UNCHANGED result
             [] o = "cancelled" -> create_tiktok_account_except(a, CancelledError)
             [] OTHER -> create_tiktok_account_except(a, Cond("StoreError", "none"))

BuildOutcomes == {"ok", "find_raise", "cancelled", "driver_fail", "override_fail"}

\* Lines 259, 148-195: find the profile, start Chrome, apply the overrides.
\* _apply_anti_detection whose failure is swallowed.
apply_anti_detection_swallowed(a) ==
    /\ overrides' = [overrides EXCEPT ![a] = "partial"]
    /\ Goto(a, "navigate")
    /\ UNCHANGED result

\* Line 193 when one of the execute_script calls of lines 200-240 raises:
\* the scripts before it were run, the exception leaves get_browser_instance.
apply_anti_detection_raises(a) ==
    /\ overrides' = [overrides EXCEPT ![a] = "partial"]
    /\ create_tiktok_account_except(a, Cond("BuildError", "none"))

get_browser_instance(a, O) ==
    /\ pc[a] = "get_browser_instance"
    /\ UNCHANGED <<watched, password, account_id, proxy_config, reg, trace, done, captcha,
                   snapshots, profiles, tiktok_accounts, noCapacity, fingerprints, secure_password, video>>
    /\ \E o \in BuildOutcomes \cap O :
        CASE o = "cancelled" ->
                /\ create_tiktok_account_except(a, CancelledError)
                /\ UNCHANGED <<driver, overrides>>
          [] o = "find_raise" ->
                /\ create_tiktok_account_except(a, Cond("StoreError", "none"))
                /\ UNCHANGED <<driver, overrides>>
          [] not_profile(find_one(account_id[a])) /\ o \notin {"cancelled", "find_raise"} ->
                /\ create_tiktok_account_except(a, Cond("NotFound", "none"))
                /\ UNCHANGED <<driver, overrides>>
          [] o = "driver_fail" /\ ~not_profile(find_one(account_id[a])) ->
                /\ create_tiktok_account_except(a, Cond("BuildError", "none"))
                /\ UNCHANGED <<driver, overrides>>
          [] o = "override_fail" /\ ~not_profile(find_one(account_id[a])) ->
                /\ driver' = [driver EXCEPT ![a] = "alive"]
                /\ apply_anti_detection_raises(a)
          [] o = "ok" /\ ~not_profile(find_one(account_id[a])) ->
                /\ driver' = [driver EXCEPT ![a] = "alive"]
                /\ overrides' = [overrides EXCEPT ![a] = "applied"]
                /\ Goto(a, "navigate")
                /\ UNCHANGED result

\* ------------------------------------------------ _register_tiktok_account
StepOutcomes == {"ok", "timeout", "cancelled"}

\* The steps for which `done` is kept: those a property below reads.
Tracked == {"age_gate", "credential_input", "code_request", "code_submit",
            "finalize_signup", "username_confirm"}

\* Handlers that re-raise where the code only logs.
Required_and_age_gate(s) == s \in {"contact_input", "code_request", "age_gate"}
Required_and_username_confirm(s) ==
    s \in {"contact_input", "code_request", "username_confirm"}
Required_and_code_submit(s) == s \in {"contact_input", "code_request", "code_submit"}

Required_only_contact_input(s) == s \in {"contact_input"}

\* The steps whose handler re-raises (lines 349 and 376).
Required(s) == s \in {"contact_input", "code_request"}

\* The Registration Result of lines 426-432; password is None when the
\* password field was not filled (line 364).
RegistrationResult(a) ==
    [status |-> "active",
     password |-> password[a]]

\* The generated password kept when the field could not be filled.
credential_password_kept(o) == "typed"

\* Lines 354-364: the local password after the password block: the value
\* generated at line 359 and typed at line 360, or None when the wait or
\* send_keys raised (line 364).
credential_password(o) == IF o = "timeout" THEN "None" ELSE "typed"

\* Lines 285-288: driver.get, then asyncio.sleep(5).
navigate(a, O) ==
    /\ pc[a] = "navigate"
    /\ UNCHANGED <<watched, password, account_id, proxy_config, driver, trace, done, captcha,
                   profiles, tiktok_accounts, noCapacity, overrides, fingerprints, secure_password, video>>
    /\ \E o \in {"ok", "raise", "cancelled"} \cap O, snap \in BOOLEAN :
        CASE o = "ok" ->
                /\ reg' = [reg EXCEPT ![a] = "running"]
                /\ Goto(a, "entry_select")
                /\ UNCHANGED <<snapshots, result>>
          [] o = "raise" ->
                register_except(a, Cond("NavigationError", "none"), snap)
          [] o = "cancelled" ->
                register_except(a, CancelledError, snap)

\* One try/except block of the flow: wait for the element, act on it, sleep.
\*   ok        the element appeared, the action was done, the sleep ended
\*   timeout   the wait or the action raised inside the try block
\*   cancelled the task was cancelled during the sleep that ends the block
try_step(a, s, nxt, O) ==
    /\ pc[a] = s
    /\ trace' = Keep(a, trace, Append(trace[a], s))
    /\ UNCHANGED <<watched, account_id, proxy_config, driver, captcha, profiles,
                   tiktok_accounts, noCapacity, overrides, fingerprints, secure_password, video>>
    /\ \E o \in StepOutcomes \cap O, snap \in BOOLEAN :
        /\ password' = IF s = "credential_input"
                        THEN [password EXCEPT ![a] = credential_password(o)]
                        ELSE password
        /\ CASE o = "ok" ->
                /\ done' = Keep(a, done, done[a] \cup ({s} \cap Tracked))
                /\ Goto(a, nxt)
                /\ UNCHANGED <<reg, snapshots, result>>
          [] o = "cancelled" ->
                /\ done' = Keep(a, done, done[a] \cup ({s} \cap Tracked))
                /\ register_except(a, CancelledError, snap)
          [] o = "timeout" /\ Required(s) ->
                /\ UNCHANGED done
                /\ register_except(a, Cond("StepTimeout", s), snap)
          [] o = "timeout" /\ ~Required(s) ->
                /\ UNCHANGED done
                /\ Goto(a, nxt)
                /\ UNCHANGED <<reg, snapshots, result>>

\* The flow with the birthdate block left out.
entry_select_skips_age_gate(a, O) ==
    try_step(a, "entry_select", "contact_method_select", O)
\* Lines 290-298: the "Use phone or email" button.
entry_select(a, O) == try_step(a, "entry_select", "age_gate", O)
\* Lines 305-323: the birthdate selects and the Next button.
age_gate(a, O) == try_step(a, "age_gate", "contact_method_select", O)
\* Lines 327-334: the Phone tab.
contact_method_select(a, O) == try_step(a, "contact_method_select", "contact_input", O)
\* Lines 337-349: the phone number input.
contact_input(a, O) == try_step(a, "contact_input", "credential_input", O)
\* Lines 352-364: the password input.
credential_input(a, O) == try_step(a, "credential_input", "code_request", O)
\* Lines 368-376: the Send code button.
code_request(a, O) == try_step(a, "code_request", "captcha_check", O)
\* The flow with the final Sign up block left out.
code_submit_skips_finalize(a, O) == try_step(a, "code_submit", "username_confirm", O)
\* Lines 383-393: the verification code input.
code_submit(a, O) == try_step(a, "code_submit", "finalize_signup", O)
\* Lines 397-405: the final Sign up button.
finalize_signup(a, O) == try_step(a, "finalize_signup", "username_confirm", O)
\* Lines 408-421: the username input and its Confirm button.
username_confirm(a, O) == try_step(a, "username_confirm", "profile_setup", O)

\* The bare `except:` of line 471 catches whatever the try block raises,
\* the "CAPTCHA detected" exception of line 470 included.
handle_captcha_except(e) == TRUE

\* Lines 379, 455-473: _handle_captcha.
captcha_check(a, O) ==
    /\ pc[a] = "captcha_check"
    /\ trace' = Keep(a, trace, Append(trace[a], "captcha_check"))
    /\ UNCHANGED <<watched, password, account_id, proxy_config, driver, done, profiles,
                   tiktok_accounts, noCapacity, overrides, fingerprints, secure_password, video>>
    /\ \E found \in {"ok", "timeout"} \cap O, snap \in BOOLEAN :
        /\ captcha' = Keep(a, captcha, found = "ok")
        /\ IF found = "ok" /\ ~handle_captcha_except(Cond("CaptchaDetected", "captcha_check"))
           THEN register_except(a, Cond("CaptchaDetected", "captcha_check"), snap)
           ELSE /\ Goto(a, "code_submit")
                /\ UNCHANGED <<reg, snapshots, result>>

\* Lines 424-432, 475-508: _setup_profile, whose bare excepts swallow every
\* outcome (a cancellation during its sleeps too), then the return.
profile_setup(a, O) ==
    /\ pc[a] = "profile_setup"
    /\ trace' = Keep(a, trace, Append(trace[a], "profile_setup"))
    /\ UNCHANGED <<watched, password, account_id, proxy_config, driver, captcha, snapshots,
                   result, profiles, tiktok_accounts, noCapacity, overrides, fingerprints, secure_password, video>>
    /\ \E o \in StepOutcomes \cap O : UNCHANGED done
    /\ reg' = [reg EXCEPT ![a] = "returned"]
    /\ Goto(a, "save_tiktok_profile")

\* ------------------------------------------- the end of create_tiktok_account
\* A write-back that marks the Identity Profile itself and clears its proxy.
save_tiktok_profile_on_profiles(a, O) ==
    /\ pc[a] = "save_tiktok_profile"
    /\ "ok" \in O
    /\ profiles' = [i \in 1..Len(profiles) |->
                        IF profiles[i].account_id = account_id[a]
                        THEN [profiles[i] EXCEPT !.proxy_config = None,
                                                 !.status = "registered"]
                        ELSE profiles[i]]
    /\ driver' = [driver EXCEPT ![a] = "quit"]
    /\ Goto(a, "returned")
    /\ result' = [result EXCEPT ![a] =
          [status |-> "created", message |-> NoCond, account_id |-> account_id[a]]]
    /\ UNCHANGED <<watched, password, account_id, proxy_config, reg, trace, done, captcha,
                   snapshots, tiktok_accounts, noCapacity, overrides, fingerprints, secure_password, video>>

\* Lines 267-275, 510-517: update_one(upsert) on db.tiktok_accounts, then
\* driver.quit() and the `created` result.
save_tiktok_profile(a, O) ==
    /\ pc[a] = "save_tiktok_profile"
    /\ UNCHANGED <<watched, password, account_id, proxy_config, reg, trace, done, captcha,
                   snapshots, profiles, noCapacity, overrides, fingerprints, secure_password, video>>
    /\ \E o \in InsertOutcomes \cap O :
        /\ IF o \in {"ok", "written_raise"}
           THEN tiktok_accounts' \in
                    update_one(tiktok_accounts, a, account_id[a], RegistrationResult(a))
           ELSE UNCHANGED tiktok_accounts
        /\ CASE o = "ok" ->
                  /\ driver' = [driver EXCEPT ![a] = "quit"]
                  /\ Goto(a, "returned")
                  /\ result' = [result EXCEPT ![a] =
                        [status |-> "created", message |-> NoCond,
                         account_id |-> account_id[a]]]
             [] o = "cancelled" ->
                  /\ UNCHANGED driver
                  /\ create_tiktok_account_except(a, CancelledError)
             [] OTHER ->
                  /\ UNCHANGED driver
                  /\ create_tiktok_account_except(a, Cond("StoreError", "none"))

\* ------------------------------------------------------------ specification
AllOutcomes == {"ok", "raise", "written_raise", "cancelled", "find_raise",
                "driver_fail", "override_fail", "timeout"}

Step(a, O) ==
    \/ create_isolated_account(a)
    \/ save_account_profile(a, O)
    \/ get_browser_instance(a, O)
    \/ navigate(a, O)
    \/ entry_select(a, O)
    \/ age_gate(a, O)
    \/ contact_method_select(a, O)
    \/ contact_input(a, O)
    \/ credential_input(a, O)
    \/ code_request(a, O)
    \/ captcha_check(a, O)
    \/ code_submit(a, O)
    \/ finalize_signup(a, O)
    \/ username_confirm(a, O)
    \/ profile_setup(a, O)
    \/ save_tiktok_profile(a, O)

Next == \E a \in Attempts : Step(a, AllOutcomes)

Spec == Init /\ [][Next]_vars

\* A direct call get_browser_instance(id), for an account_id that is in
\* db.profiles or for one that is not.
client_call(c) ==
    /\ pc[c] = "idle"
    /\ \E id \in randint_values :
          account_id' = [account_id EXCEPT ![c] = id]
    /\ Goto(c, "get_browser_instance")
    /\ UNCHANGED <<watched, password, proxy_config, driver, reg, trace, done, captcha,
                   snapshots, result, profiles, tiktok_accounts, noCapacity, overrides, fingerprints, secure_password, video>>

\* PROXY_POOL_SIZE + 1 calls side by side, with a store and a driver that do
\* not fail, on a page that shows none of the awaited elements: the runs of
\* the pipeline in which calls compete for the proxies, each call ending at
\* the phone number input.
PoolStep(a) ==
    \/ create_isolated_account(a)
    \/ save_account_profile(a, {"ok"})
    \/ get_browser_instance(a, {"ok"})
    \/ navigate(a, {"ok"})
    \/ entry_select(a, {"timeout"})
    \/ age_gate(a, {"timeout"})
    \/ contact_method_select(a, {"timeout"})
    \/ contact_input(a, {"timeout"})

InitPool == InitCalls /\ watched = 1

NextPool == \E a \in PoolAttempts : PoolStep(a)

SpecPool == InitPool /\ [][NextPool]_vars

\* NumStoreCalls calls made one after another, for which every collaborator
\* answers and every element appears, next to a direct caller of
\* get_browser_instance: the runs in which the two collections fill.
InitStore == InitCalls /\ watched = 1

NextStore ==
    \/ \E a \in StoreAttempts :
          /\ \A b \in StoreAttempts : b < a => Terminated(b)
          /\ Step(a, {"ok"})
    \/ client_call(Client)
    \/ get_browser_instance(Client, {"ok"})

SpecStore == InitStore /\ [][NextStore]_vars

\* The password generator on its own.
NextPassword ==
    \/ generate_secure_password_call
    \/ generate_secure_password_draw
    \/ generate_secure_password_return

SpecPassword == InitStore /\ [][NextPassword]_vars

\* The video generator on its own.
NextVideo ==
    \/ generate_video_from_material
    \/ generate_script
    \/ generate_audio_path
    \/ generate_audio_azure
    \/ generate_audio_elevenlabs
    \/ render_and_return

SpecVideo == InitStore /\ [][NextVideo]_vars

\* The fingerprint generator on its own.
NextFingerprint == fingerprint_call

SpecFingerprint == InitStore /\ [][NextFingerprint]_vars

\* The try/except blocks of _register_tiktok_account in program order
\* (lines 290-424).
StepOrder ==
    <<"entry_select", "age_gate", "contact_method_select", "contact_input",
      "credential_input", "code_request", "captcha_check", "code_submit",
      "finalize_signup", "username_confirm", "profile_setup">>

\* Line 186: the Chrome user data directory of a build, named by account_id
\* alone; nothing in the file removes or empties it.
user_data_dir(a) == account_id[a]

\* ------------------------------------------------------------------ claims
Range(f) == {f[i] : i \in DOMAIN f}
Attempted(a, s) == s \in Range(trace[a])
\* The document the call inserted into db.profiles, if any.
OwnProfile(a) == {profiles[i] : i \in {j \in 1..Len(profiles) : profiles[j].oid = a}}
Holders(p) == {a \in Procs : Running(a) /\ proxy_config[a] = p}

\* C1: at every instant each proxy endpoint is assigned to at most one live
\* identity (a call that is still running).
C1_ExclusiveProxy ==
    \A p \in proxy_list : Cardinality(Holders(p)) <= 1

\* C2: a call whose browser was built has quit it exactly once by the time
\* the call ends, whatever the exit path.
C2_TeardownOnEveryExit ==
    \A a \in Procs : (Terminated(a) /\ reg[a] # "none") => driver[a] = "quit"

\* C3: when a call has ended, the proxy it was given is no longer bound to its
\* identity: no active profile of the call still carries the proxy.
C3_LeaseReleasedOnExit ==
    \A a \in Procs :
        Terminated(a) =>
            ~\E d \in OwnProfile(a) : d.proxy_config # None /\ d.status = "active"

\* C4: once the CAPTCHA indicator was detected the flow has aborted: it is
\* not going on, code_submit is never attempted and no result is returned.
C4_CaptchaAborts ==
    captcha[watched] =>
        /\ reg[watched] = "raised"
        /\ ~Attempted(watched, "code_submit")
        /\ result[watched].status # "created"

\* The call returned and the last step it attempted was contact_input: the
\* phone number input never appeared (or could not be typed into).
ContactInputMissing(a) ==
    /\ pc[a] = "returned"
    /\ trace[a] # <<>>
    /\ trace[a][Len(trace[a])] = "contact_input"

\* C5: a call that ended at the phone number input (the element never
\* appeared) returned an error carrying that step's timeout, and attempted
\* no later step.
C5_ContactInputTimeoutReported ==
    ContactInputMissing(watched) =>
        /\ result[watched].status = "error"
        /\ result[watched].message = Cond("StepTimeout", "contact_input")
        /\ reg[watched] = "raised"

\* C6 as stated: the flow returns a Registration Result only if the
\* finalize_signup action (the click on the final button) was performed.
C6_SuccessOnlyIfFinalizePerformed ==
    reg[watched] = "returned" => "finalize_signup" \in done[watched]

\* C6 as amended: the flow returns a Registration Result, and the call
\* reports `created`, only if the finalize_signup step was attempted; a flow
\* that ended without attempting it ended by raising.
C6_SuccessOnlyIfFinalizeReached ==
    /\ reg[watched] = "returned" => Attempted(watched, "finalize_signup")
    /\ result[watched].status = "created" => Attempted(watched, "finalize_signup")
    /\ (reg[watched] \in {"returned", "raised"}
            /\ ~Attempted(watched, "finalize_signup")) => reg[watched] = "raised"
\* C6 witness: a call reported `created` although the final button was never
\* clicked; the step was attempted and timed out.
C6_Witness ==
    /\ result[watched].status = "created"
    /\ "finalize_signup" \notin done[watched]
    /\ Attempted(watched, "finalize_signup")

\* C7: no failure of allocation, profile creation, build, registration or
\* write-back leaves create_tiktok_account as an exception: a call that ended
\* returned a `created` or `error` result, and the only thing ever raised to
\* the caller is the caller's own cancellation.
C7_NoFailurePropagates ==
    \A a \in Procs :
        /\ pc[a] = "returned" => result[a].status \in {"created", "error"}
        /\ pc[a] = "propagated" => result[a].message = CancelledError
        /\ result[a].status = "error" => result[a].message.kind \notin {"none", "CancelledError"}
\* C7 witness: the flow returned a result and the write-back failed; the call
\* returned the error dict.
C7_Witness ==
    /\ pc[watched] = "returned"
    /\ reg[watched] = "returned"
    /\ result[watched] = [status |-> "error", message |-> Cond("StoreError", "none"),
                          account_id |-> None]

\* C8: a call that failed after its profile was stored leaves that profile
\* with status `failed`.
C8_FailedProfileMarked ==
    \A a \in Procs :
        (pc[a] = "returned" /\ result[a].status = "error") =>
            \A d \in OwnProfile(a) : d.status = "failed"

\* C9: at most PROXY_POOL_SIZE running calls hold a proxy at once.
C9_AtMostPoolSizeHolders ==
    Cardinality({a \in Procs : Running(a) /\ proxy_config[a] # None})
        <= PROXY_POOL_SIZE

C11_ActiveOnlyOnceBuilt ==
    \A i \in 1..Len(profiles) :
        profiles[i].status = "active" => driver[profiles[i].oid] # "none"

IsPrefix(t, order) ==
    /\ Len(t) <= Len(order)
    /\ \A i \in 1..Len(t) : t[i] = order[i]

\* C12 as stated: the steps attempted so far are, in order and each once,
\* the first steps of age_gate, contact_method_select, ..., profile_setup.
C12_StepsInSpecOrder ==
    IsPrefix(trace[watched],
             <<"age_gate", "contact_method_select", "contact_input",
               "credential_input", "code_request", "captcha_check",
               "code_submit", "finalize_signup", "username_confirm",
               "profile_setup">>)

\* C12 as amended: the steps attempted so far are, in order and each once,
\* the first steps of entry_select ("Use phone or email"), age_gate,
\* contact_method_select, ..., profile_setup; the step under way is the next.
C12_StepsInProgramOrder ==
    /\ IsPrefix(trace[watched], StepOrder)
    /\ pc[watched] \in Range(StepOrder) =>
          /\ Len(trace[watched]) < Len(StepOrder)
          /\ pc[watched] = StepOrder[Len(trace[watched]) + 1]
\* C12 witness: a flow that attempted every step and returned.
C12_Witness ==
    /\ trace[watched] = StepOrder
    /\ reg[watched] = "returned"

Cancelled(a) == result[a].message = CancelledError
AgeGateSkipped(a) == Attempted(a, "age_gate") /\ "age_gate" \notin done[a]

\* C13: when the age gate timed out the flow went on to the next step, and
\* if both required steps succeeded (the CAPTCHA check was reached) and the
\* caller did not cancel, the flow attempted finalize_signup and returned a
\* result once it ended.
C13_AgeGateSkipStillFinalizes ==
    AgeGateSkipped(watched) =>
        /\ pc[watched] = "contact_method_select"
              \/ Attempted(watched, "contact_method_select")
        /\ (Attempted(watched, "captcha_check") /\ ~Cancelled(watched)) =>
              /\ reg[watched] # "raised"
              /\ reg[watched] = "returned" => Attempted(watched, "finalize_signup")
              /\ Terminated(watched) => reg[watched] = "returned"
\* C13 witness: the age gate timed out and the call reported `created`.
C13_Witness ==
    /\ AgeGateSkipped(watched)
    /\ Attempted(watched, "finalize_signup")
    /\ result[watched].status = "created"

\* C14: once username_confirm is attempted (finalize_signup is passed) the
\* flow never raises unless the caller cancels, whatever the outcome of
\* username_confirm and profile_setup; after profile_setup it has returned.
C14_FinishingStepsNeverFail ==
    (Attempted(watched, "username_confirm") /\ ~Cancelled(watched)) =>
        /\ reg[watched] # "raised"
        /\ Attempted(watched, "profile_setup") => reg[watched] = "returned"
\* C14 witness: username_confirm failed and the flow returned its result.
C14_Witness ==
    /\ Attempted(watched, "username_confirm")
    /\ "username_confirm" \notin done[watched]
    /\ reg[watched] = "returned"

\* C15: when the verification code could not be entered (code_submit timed
\* out) the flow did not abort: finalize_signup is the next step or was
\* attempted.
C15_CodeUnavailableAdvances ==
    (Attempted(watched, "code_submit") /\ "code_submit" \notin done[watched]) =>
        /\ pc[watched] = "finalize_signup" \/ Attempted(watched, "finalize_signup")
        /\ reg[watched] = "raised" => Cancelled(watched)
\* C15 witness: code_submit timed out and finalize_signup was attempted.
C15_Witness ==
    /\ Attempted(watched, "code_submit")
    /\ "code_submit" \notin done[watched]
    /\ Attempted(watched, "finalize_signup")

\* C16: whenever the flow was aborted by a fault (anything but the caller's
\* cancellation), save_screenshot was called, once, before the error reached
\* create_tiktok_account; it is called in no other case.
C16_SnapshotOnAbort ==
    /\ (reg[watched] = "raised" /\ ~Cancelled(watched)) => snapshots[watched] = 1
    /\ snapshots[watched] # 0 => reg[watched] = "raised"
\* C16 witness: the Send code button never came; the screenshot was taken and
\* the step's timeout was returned.
C16_Witness ==
    /\ result[watched].message = Cond("StepTimeout", "code_request")
    /\ snapshots[watched] = 1

\* C17: the condition a call reports is never the snapshot's own failure.
C17_SnapshotFailureNotReported ==
    result[watched].message # SnapshotError

\* The call has reached driver.get (line 285) or gone past it.
Navigating(a) == pc[a] = "navigate" \/ reg[a] # "none"

\* C18: a call that is at its first driver.get, or past it, has had
\* _apply_anti_detection run to its end on its driver.
C18_OverridesBeforeNavigation ==
    \A a \in Attempts : Navigating(a) => overrides[a] = "applied"
\* C18 witness: a call is in the registration flow with the overrides applied.
C18_Witness ==
    /\ reg[watched] = "running"
    /\ overrides[watched] = "applied"

\* C19: a call that ended without get_browser_instance having returned a
\* driver has left no driver process alive.
C19_NoDriverAfterFailedBuild ==
    \A a \in Attempts :
        (Terminated(a) /\ overrides[a] # "applied") => driver[a] # "alive"

\* C20: after a call reported `created`, the profile read back by its
\* account_id carries the result the flow produced and status `registered`.
C20_ResultReadBackFromProfile ==
    \A a \in Attempts :
        result[a].status = "created" =>
            /\ find_one(account_id[a]).tiktok_profile = RegistrationResult(a)
            /\ find_one(account_id[a]).status = "registered"

\* C21: no two stored Identity Profiles carry the same account_id.
C21_UniqueAccountId ==
    \A i, j \in 1..Len(profiles) :
        i # j => profiles[i].account_id # profiles[j].account_id

\* C22: no two builds that started a driver used the same user data
\* directory (no build wipes it).
C22_UserDataDirNotShared ==
    \A a, b \in Procs :
        (a # b /\ driver[a] # "none" /\ driver[b] # "none") =>
            user_data_dir(a) # user_data_dir(b)

\* C23: a call whose registration flow was abandoned by the caller during a
\* sleep has torn its driver down and carries no live proxy binding.
C23_AbandonProceedsToCleanup ==
    \A a \in Procs :
        (reg[a] = "raised" /\ Cancelled(a)) =>
            /\ driver[a] = "quit"
            /\ \A d \in OwnProfile(a) : d.status # "active"

\* C24: every call that ended, the one stopped from outside when its time
\* ran out included, ended by returning a result: an error like that of a
\* failed required step, or `created`.
C24_ExpiryReportedAsError ==
    \A a \in Procs :
        Terminated(a) =>
            /\ pc[a] = "returned"
            /\ result[a].status \in {"created", "error"}

\* The result of the call's flow is in the store.
WrittenBack(a) == matching(tiktok_accounts, account_id[a]) # {}

\* C25: a call that went through the registration flow and returned has,
\* before returning, written the result back, then quit its driver, then
\* released its proxy.
C25_PhasesBeforeReturn ==
    \A a \in Procs :
        (pc[a] = "returned" /\ reg[a] # "none") =>
            /\ WrittenBack(a)
            /\ driver[a] = "quit"
            /\ \A d \in OwnProfile(a) : d.proxy_config = None

\* C26: a call in which the CAPTCHA check found the CAPTCHA is never
\* reported as `created`.
C26_CaptchaNeverReportedCreated ==
    captcha[watched] => result[watched].status # "created"

\* C27: the result a call returns carries the account_id of the profile the
\* call stored.
C27_ResultIdentifiesProfile ==
    \A a \in Procs :
        (pc[a] = "returned" /\ OwnProfile(a) # {}) =>
            result[a].account_id = account_id[a]

\* The call got past get_browser_instance: the lookup let it continue.
Continued(a) ==
    pc[a] \notin {"idle", "save_account_profile", "get_browser_instance",
                  "returned", "propagated"}
NotFound == Cond("NotFound", "none")

\* C28: a lookup of an account_id that is not in db.profiles ends the call
\* with the "not found" error and no driver; a call continues past the
\* lookup, and a driver is started, only for an account_id that is stored.
C28_UnknownAccountNotFound ==
    \A a \in Procs :
        /\ result[a].message = NotFound =>
              /\ pc[a] = "returned"
              /\ result[a].status = "error"
              /\ driver[a] = "none"
        /\ Continued(a) => find_one(account_id[a]) # NoDoc
        /\ driver[a] # "none" => find_one(account_id[a]) # NoDoc
\* C28 witness: a direct call for an unknown account_id ended with the "not
\* found" error and started no driver.
C28_Witness ==
    /\ result[Client].message = NotFound
    /\ find_one(account_id[Client]) = NoDoc
    /\ driver[Client] = "none"

\* C29: db.tiktok_accounts holds at most one document per account_id; every
\* document was inserted by a call with that account_id whose flow returned,
\* and holds status `registered` and the result of such a call; every call
\* that reported `created` has its document.
C29_UpsertKeepsOneRecord ==
    /\ \A d, e \in tiktok_accounts : d.account_id = e.account_id => d = e
    /\ \A d \in tiktok_accounts :
          /\ d.status = "registered"
          /\ account_id[d.oid] = d.account_id /\ reg[d.oid] = "returned"
          /\ \E b \in Procs :
                /\ account_id[b] = d.account_id /\ reg[b] = "returned"
                /\ d.password = RegistrationResult(b).password
    /\ \A a \in Procs :
          result[a].status = "created" =>
              \E d \in tiktok_accounts : d.account_id = account_id[a]
\* C29 witness: two calls with the same account_id both wrote their result;
\* the second found the document of the first and updated it.
C29_Witness ==
    \E a, b \in StoreAttempts :
        /\ a # b
        /\ account_id[a] = account_id[b]
        /\ result[a].status = "created" /\ result[b].status = "created"
        /\ Cardinality({d \in tiktok_accounts : d.account_id = account_id[a]}) = 1

\* C30: every field of a generated fingerprint has a value of the list (or
\* range) the code declares for that field.
C30_FingerprintFieldsDeclared ==
    \A f \in fingerprints :
        /\ f.screen_resolution \in screen_resolutions
        /\ f.viewport_size \in viewport_sizes
        /\ f.color_depth \in color_depths
        /\ f.pixel_ratio \in pixel_ratios
        /\ f.timezone_offset \in timezone_offsets
        /\ f.language \in supported_languages
        /\ f.platform \in platforms
        /\ f.webgl_vendor \in webgl_vendors
\* C30 witness: a fingerprint whose fields were drawn apart from each other:
\* the last screen resolution with the first viewport, the extreme timezone
\* offset, and so on.
C30_Witness ==
    [screen_resolution |-> "1536x864", viewport_size |-> "1200x800",
     color_depth |-> 32, pixel_ratio |-> "1.25", timezone_offset |-> 0 - 12,
     language |-> "th", platform |-> "MacIntel", webgl_vendor |-> "AMD"]
        \in fingerprints

\* C32: when the Send code button could not be clicked the flow aborted
\* there: the call returned an error, code_request is the last step
\* attempted, and neither captcha_check nor code_submit was attempted.
C32_CodeRequestFailureAborts ==
    (Attempted(watched, "code_request") /\ "code_request" \notin done[watched]) =>
        /\ reg[watched] = "raised"
        /\ pc[watched] = "returned" /\ result[watched].status = "error"
        /\ trace[watched][Len(trace[watched])] = "code_request"
        /\ ~Attempted(watched, "captcha_check")
        /\ ~Attempted(watched, "code_submit")
\* C32 witness: the Send code button never became clickable and the call
\* returned an error.
C32_Witness ==
    /\ Attempted(watched, "code_request")
    /\ "code_request" \notin done[watched]
    /\ result[watched].status = "error"

\* C33: in a returned Registration Result the password is None exactly when
\* the password block did not complete, and otherwise is the typed value.
C33_PasswordNullIffNotEntered ==
    reg[watched] = "returned" =>
        /\ RegistrationResult(watched).password = "None"
              <=> "credential_input" \notin done[watched]
        /\ RegistrationResult(watched).password # "None"
              => RegistrationResult(watched).password = "typed"
\* C33 witness: a result was returned whose password is None, the password
\* field never having appeared.
C33_Witness ==
    /\ reg[watched] = "returned"
    /\ RegistrationResult(watched).password = "None"
    /\ "credential_input" \notin done[watched]

\* C34: a record with status `registered` is in db.tiktok_accounts only
\* through a call whose registration flow returned; a call whose flow raised,
\* or never started, has inserted none.
C34_RegisteredOnlyAfterNormalReturn ==
    /\ \A d \in tiktok_accounts : reg[d.oid] = "returned"
    /\ \A a \in Procs :
          reg[a] # "returned" => ~\E d \in tiktok_accounts : d.oid = a
    /\ tiktok_accounts # {} => \E a \in Procs : reg[a] = "returned"
\* C34 witness: the flow of a call returned and its record is stored.
C34_Witness ==
    /\ reg[watched] = "returned"
    /\ \E d \in tiktok_accounts : d.oid = watched /\ d.status = "registered"

\* C35: a call that reported `created` (with tiktok_username, line 274) has
\* entered and confirmed the username in the username_confirm step.
C35_ReportedUsernameWasSubmitted ==
    result[watched].status = "created" => "username_confirm" \in done[watched]

\* C36: no step changes a stored Identity Profile: every document of
\* db.profiles keeps its account_id and proxy_config (and its _id), and
\* documents are only added.
C36_ProfileFieldsFrozen ==
    [][/\ Len(profiles') >= Len(profiles)
       /\ \A i \in 1..Len(profiles) :
             /\ profiles'[i].oid = profiles[i].oid
             /\ profiles'[i].account_id = profiles[i].account_id
             /\ profiles'[i].proxy_config = profiles[i].proxy_config]_vars
\* C36 witness: a call went through build, flow and write-back, and the
\* profile it stored still carries the account_id and proxy it was created
\* with.
C36_Witness ==
    /\ result[watched].status = "created"
    /\ \E d \in OwnProfile(watched) :
          /\ d.account_id = account_id[watched]
          /\ d.proxy_config = proxy_config[watched]
          /\ d.proxy_config # None

\* C31: a returned password has exactly PASSWORD_LENGTH characters, each of
\* them (the one at any index) a character of chars; the generator never ends
\* in an error and never holds more than PASSWORD_LENGTH characters.
C31_PasswordLengthAndCharset ==
    /\ secure_password.status # "error"
    /\ secure_password.n <= PASSWORD_LENGTH
    /\ secure_password.status = "returned" => secure_password.n = PASSWORD_LENGTH
    /\ secure_password.n >= secure_password.at /\ secure_password.at > 0 =>
          \E i \in 1..Len(chars) : chars[i] = secure_password.ch
    /\ Len(chars) = Cardinality({chars[i] : i \in 1..Len(chars)})
\* C31 witness: a password was returned whose last character is ")", the
\* last character of chars.
C31_Witness ==
    /\ secure_password.status = "returned"
    /\ secure_password.at = PASSWORD_LENGTH
    /\ secure_password.ch = ")"

\* C37: the alternate service is tried only after the primary failed; the
\* audio path is returned exactly when one of them succeeded; audio
\* generation fails only when both were tried and failed, and the video
\* generation then returns an error result.
C37_AudioTwoTierFallback ==
    /\ video.alternate # "untried" => video.primary = "failed"
    /\ video.audio = "path" <=>
          (video.primary = "completed" \/ video.alternate = "ok")
    /\ video.audio = "raised" =>
          video.primary = "failed" /\ video.alternate = "failed"
    /\ video.audio = "raised" => video.result = "error"

====
